---- MODULE Spec2Model ----
(***************************************************************************)
(* Model of src/matchmaker/extension/gateway.js: the PlayerConnectionGateway *)
(* (waiting queue, availability scan, assignment) and the VirtualPlayer     *)
(* session (client leg, worker leg, drop / disconnect signals).             *)
(*                                                                          *)
(* Every action is one run-to-completion handler of the Node.js event loop. *)
(* The two websocket legs follow the readyState machine of the ws library:  *)
(* CONNECTING -> OPEN -> CLOSING -> (close event).  An 'error' event on the *)
(* worker leg and its 'close' event are separate events.                    *)
(***************************************************************************)
EXTENDS Integers, Sequences, FiniteSets, TLC

\* ---------------------------------------------------------------- bounds
MaxPlayers == 2
NumWorkers == 2

Players == 1..MaxPlayers
\* pool.values() iterates in insertion order: worker 1 first
Workers == 1..NumWorkers

\* gateway.js:129  Date.now() - 6e4
LiveWindow == 60000
\* the instants the clock and the heartbeats are observed at: they put a
\* heartbeat age below, exactly at and above the liveness window
TimePoints == {0, LiveWindow, LiveWindow + 1}

\* longest standing queue a drain is examined on (SpecDrain)
MaxQueue == 3

\* how many of the latest notices of a client are kept in view
NoticeWindow == 2
\* firings of one client heartbeat interval that are followed (SpecHeartbeat)
MaxTicks == 3
\* probes from the worker that are followed on one worker leg (SpecTimer)
MaxPings == 2
\* payloads received by the gateway that are followed (SpecRelay)
MaxMsgs == 2

VARIABLES
  options,     \* the constructor's argument: what each collaborator is
  gateway,     \* "none" before new, then "created" or "threw"
  pool,        \* options.pool: worker -> status record
  now,         \* Date.now()
  debug,       \* this._debug
  queue,       \* this.queue, an insertion-ordered Set, as a sequence
  nextId,      \* Common._id of the newest session (the gateway took 0)
  ws,          \* player.ws.readyState, "NONE" before the session exists
  stream,      \* player.stream: the worker the leg goes to, 0 for null
  streamState, \* player.stream.readyState (ERRORED: CLOSING after 'error')
  onDisconnect, \* workers freed by the player's 'disconnect' listeners
  legUrl,      \* address and player parameter of the url player.stream went to
  notices,     \* the latest notices delivered on player.ws, oldest first
  heartbeat,   \* ws.alive, the hb interval, and what the interval has done
  pingTimeout, \* player.stream.pingTimeout and the timers pending for the leg
  relay        \* payloads received on the legs and payloads passed on

\* parts of the state that most handlers leave alone
fixed == <<options, gateway, now, debug>>
sideVars == <<heartbeat, pingTimeout, relay>>

vars == <<options, gateway, pool, now, debug, queue, nextId, ws, stream,
          streamState, onDisconnect, legUrl, notices, heartbeat, pingTimeout, relay>>

\* ------------------------------------------------------------- helpers
NoServer == 0

\* isOpen(ws): ws && ws.readyState === WebSocket.OPEN
isOpen(state) == state = "OPEN"

RECURSIVE SeqToSet(_)
SeqToSet(s) == IF s = <<>> THEN {} ELSE {Head(s)} \cup SeqToSet(Tail(s))

\* Set.prototype.delete on the insertion-ordered queue
RECURSIVE QueueDelete(_, _)
QueueDelete(q, p) ==
  IF q = <<>> THEN <<>>
  ELSE IF Head(q) = p THEN QueueDelete(Tail(q), p)
  ELSE <<Head(q)>> \o QueueDelete(Tail(q), p)

\* an add that puts the new member first
QueueAdd_AtHead(q, p) == IF p \in SeqToSet(q) THEN q ELSE <<p>> \o q

\* Set.prototype.add: appends unless already a member
QueueAdd(q, p) == IF p \in SeqToSet(q) THEN q ELSE Append(q, p)

\* Eligible without the test of the allocated flag
Eligible_IgnoresAllocated(server, t, dbg) ==
  /\ server.numConnectedClients = 0
  /\ server.lastPingReceived >= t - LiveWindow
  /\ (server.ready = TRUE \/ dbg)

\* the condition of nextAvailable's loop body
Eligible(server, t, dbg) ==
  /\ server.numConnectedClients = 0
  /\ ~server.allocated
  /\ server.lastPingReceived >= t - LiveWindow
  /\ (server.ready = TRUE \/ dbg)

\* the scan keeping the last worker passing the test
RECURSIVE ScanFrom_LastMatch(_, _, _, _)
ScanFrom_LastMatch(w, pl, t, dbg) ==
  IF w > NumWorkers THEN NoServer
  ELSE LET later == ScanFrom_LastMatch(w + 1, pl, t, dbg) IN
       IF later # NoServer THEN later
       ELSE IF Eligible(pl[w], t, dbg) THEN w ELSE NoServer

\* nextAvailable(): first worker in pool order passing the test, else none
RECURSIVE ScanFrom(_, _, _, _)
ScanFrom(w, pl, t, dbg) ==
  IF w > NumWorkers THEN NoServer
  ELSE IF Eligible(pl[w], t, dbg) THEN w
  ELSE ScanFrom(w + 1, pl, t, dbg)

nextAvailable(pl, t, dbg) == ScanFrom(1, pl, t, dbg)

\* freeServer closure of assignPlayer
freeServer(pl, w) == [pl EXCEPT ![w].allocated = FALSE]

RECURSIVE FreeAll(_, _)
FreeAll(pl, S) ==
  IF S = {} THEN pl
  ELSE LET w == CHOOSE x \in S : TRUE IN FreeAll(freeServer(pl, w), S \ {w})

\* detail of a notice: a text, or the backend record the session got
Text(t) == [text |-> t, backend |-> NoServer]
Backend(w) == [text |-> "", backend |-> w]

\* a notice that says queued whatever this.stream is
Notice_AlwaysQueued(strm, detail) ==
  [queued |-> TRUE, matched |-> FALSE, detail |-> detail]

\* sendNotice(detail): the message is built from this.stream and delivered
\* when the client leg takes it; the view keeps the latest NoticeWindow
Notice(strm, detail) ==
  [queued |-> ~(strm # NoServer), matched |-> ~~(strm # NoServer), detail |-> detail]

sendNotice(log, wsState, strm, detail) ==
  IF isOpen(wsState)
  THEN LET l == Append(log, Notice(strm, detail)) IN
       IF Len(l) > NoticeWindow THEN Tail(l) ELSE l
  ELSE log

NoUrl == [address |-> NoServer, player |-> 0]
\* `ws://${address}:${port}?player=${this._id}`, this._id being the session's
StreamUrl(w, p) == [address |-> w, player |-> p]

\* The broker/session state a drain works on
Core == [pool |-> pool, queue |-> queue, stream |-> stream,
         streamState |-> streamState, onDisconnect |-> onDisconnect,
         legUrl |-> legUrl, notices |-> notices]

\* assignPlayer without this.queue.delete(player)
assignPlayer_KeepsQueued(c, wsOf, p, w) ==
  IF isOpen(wsOf[p])
  THEN [pool |-> [c.pool EXCEPT ![w].allocated = TRUE],
        queue |-> c.queue,
        stream |-> [c.stream EXCEPT ![p] = w],
        streamState |-> [c.streamState EXCEPT ![p] = "CONNECTING"],
        onDisconnect |-> [c.onDisconnect EXCEPT ![p] = @ \cup {w}],
        legUrl |-> [c.legUrl EXCEPT ![p] = StreamUrl(w, p)],
        notices |-> [c.notices EXCEPT ![p] = sendNotice(@, wsOf[p], w, Backend(w))]]
  ELSE c

\* assignPlayer(player, server)
assignPlayer(c, wsOf, p, w) ==
  LET q1 == QueueDelete(c.queue, p) IN
  IF isOpen(wsOf[p])
  THEN [pool |-> [c.pool EXCEPT ![w].allocated = TRUE],
        queue |-> q1,
        stream |-> [c.stream EXCEPT ![p] = w],
        streamState |-> [c.streamState EXCEPT ![p] = "CONNECTING"],
        onDisconnect |-> [c.onDisconnect EXCEPT ![p] = @ \cup {w}],
        legUrl |-> [c.legUrl EXCEPT ![p] = StreamUrl(w, p)],
        notices |-> [c.notices EXCEPT ![p] = sendNotice(@, wsOf[p], w, Backend(w))]]
  ELSE [c EXCEPT !.queue = q1]

\* the loop taking the most recently queued session first
RECURSIVE DrainLoop_LastFirst(_, _, _, _, _)
DrainLoop_LastFirst(c, rest, wsOf, t, dbg) ==
  IF rest = <<>> THEN c
  ELSE LET server == nextAvailable(c.pool, t, dbg) IN
       IF server = NoServer THEN c
       ELSE DrainLoop_LastFirst(assignPlayer(c, wsOf, rest[Len(rest)], server),
                                SubSeq(rest, 1, Len(rest) - 1), wsOf, t, dbg)

\* the loop giving up on a session it finds no worker for
RECURSIVE DrainLoop_DropsUnserved(_, _, _, _, _)
DrainLoop_DropsUnserved(c, rest, wsOf, t, dbg) ==
  IF rest = <<>> THEN c
  ELSE LET server == nextAvailable(c.pool, t, dbg) IN
       IF server = NoServer THEN [c EXCEPT !.queue = QueueDelete(@, Head(rest))]
       ELSE DrainLoop_DropsUnserved(assignPlayer(c, wsOf, Head(rest), server),
                                    Tail(rest), wsOf, t, dbg)

\* the loop leaving after its first assignment
DrainLoop_OnePerDrain(c, rest, wsOf, t, dbg) ==
  IF rest = <<>> THEN c
  ELSE LET server == nextAvailable(c.pool, t, dbg) IN
       IF server = NoServer THEN c
       ELSE assignPlayer(c, wsOf, Head(rest), server)

\* connectWaitingPlayers(): the for-of loop over the queue; rest is the part
\* of the iteration still ahead
RECURSIVE DrainLoop(_, _, _, _, _)
DrainLoop(c, rest, wsOf, t, dbg) ==
  IF rest = <<>> THEN c
  ELSE LET server == nextAvailable(c.pool, t, dbg) IN
       IF server = NoServer THEN c
       ELSE DrainLoop(assignPlayer(c, wsOf, Head(rest), server),
                      Tail(rest), wsOf, t, dbg)

connectWaitingPlayers(c, wsOf, t, dbg) == DrainLoop(c, c.queue, wsOf, t, dbg)

SetCore(c) ==
  /\ pool' = c.pool
  /\ queue' = c.queue
  /\ stream' = c.stream
  /\ streamState' = c.streamState
  /\ onDisconnect' = c.onDisconnect
  /\ legUrl' = c.legUrl
  /\ notices' = c.notices

\* ------------------------------------------------------- construction
\* What a collaborator passed in options can be: missing, an object of
\* another class, or an instance of the class the constructor names.
\* "Duck" is an object that has the metrics methods without being a
\* MetricsAdapter.
Undefined == [kind |-> "undefined", class |-> "", truthy |-> FALSE]
Obj(cls) == [kind |-> "object", class |-> cls, truthy |-> TRUE]
Bool(b) == [kind |-> "boolean", class |-> "", truthy |-> b]

\* JavaScript's unary !: always yields a boolean
JsNot(v) == Bool(~v.truthy)

\* v instanceof cls: false for every primitive
InstanceOf(v, cls) == v.kind = "object" /\ v.class = cls

\* metrics.instrumentSocketServer(...).gauge(...): a TypeError unless the
\* value has these methods
HasMetricsMethods(v) == v.kind = "object" /\ v.class \in {"MetricsAdapter", "Duck"}

\* the constructor body up to the first throw: TRUE when it runs to the end
ConstructorReturns(o) ==
  /\ ~(~InstanceOf(o.server, "Http.Server"))
  /\ ~(~InstanceOf(o.matchmaker, "Net.Server"))
  /\ ~InstanceOf(JsNot(o.pool), "Map")
  /\ ~InstanceOf(JsNot(o.metrics), "MetricsAdapter")
  /\ HasMetricsMethods(o.metrics)

ValidOptions ==
  [server |-> Obj("Http.Server"), matchmaker |-> Obj("Net.Server"),
   pool |-> Obj("Map"), metrics |-> Obj("MetricsAdapter")]

OptionValues ==
  [server : {Undefined, Obj("Object"), Obj("Http.Server")},
   matchmaker : {Undefined, Obj("Object"), Obj("Net.Server")},
   pool : {Undefined, Obj("Object"), Obj("Map")},
   metrics : {Undefined, Obj("Object"), Obj("Duck"), Obj("MetricsAdapter")}]

\* -------------------------------------------------------------- gauges
\* what collect() of each gauge sets when the metrics are read
\* player_queue_count: queue.size
player_queue_count == Cardinality(SeqToSet(queue))

\* streamer_available_count
streamer_available_count ==
  Cardinality({w \in Workers :
                 pool[w].numConnectedClients = 0 /\ pool[w].ready = TRUE})

\* ------------------------------------------------- session side state
\* Client heartbeat of one session. alive is ws.alive, hb whether the
\* interval is set; ticks, probes and pongs count what happened on the leg;
\* punctual: at every tick so far every probe sent had been answered;
\* terminated: the heartbeat has called ws.terminate()
NoHeartbeat ==
  [alive |-> FALSE, hb |-> FALSE, ticks |-> 0, probes |-> 0, pongs |-> 0,
   punctual |-> TRUE, terminated |-> FALSE]

\* setInterval(_clientHeartbeat, 3e4); ws.alive = true
StartHeartbeat == [NoHeartbeat EXCEPT !.alive = TRUE, !.hb = TRUE]

\* clearInterval forgotten
clearInterval_Forgotten(h) == h

\* clearInterval(hb)
clearInterval(h) == [h EXCEPT !.hb = FALSE]

\* Deadline timers of the session's worker leg: handle is ss.pingTimeout
\* (0 while undefined), pending the timers set and neither fired nor
\* cleared, armed how many the leg has set
NoTimer == [handle |-> 0, pending |-> {}, armed |-> 0]

\* clearTimeout(this.pingTimeout)
clearTimeout(t) == [t EXCEPT !.pending = @ \ {t.handle}]

\* the 'close' listener clear() { clearTimeout(this.pingTimeout) }; the
\* socket and its pingTimeout handle go with this.stream, pending keeps what
\* clearTimeout left
clear(t) == [NoTimer EXCEPT !.pending = clearTimeout(t).pending]

\* pong() setting a timer without clearing the one before
pong_KeepsOldTimer(t) ==
  [handle |-> t.armed + 1, pending |-> t.pending \cup {t.armed + 1},
   armed |-> t.armed + 1]

\* pong(): clearTimeout(this.pingTimeout); this.pingTimeout = setTimeout(...)
pong(t) ==
  LET c == clearTimeout(t) IN
  [handle |-> t.armed + 1, pending |-> c.pending \cup {t.armed + 1},
   armed |-> t.armed + 1]

\* ws.terminate() / ss.terminate(): an open leg starts closing
terminate(state) == IF state = "OPEN" THEN "CLOSING" ELSE state

\* Payloads of the two legs: a text frame, a binary frame
Payloads ==
  { [binary |-> FALSE, data |-> "text"],
    [binary |-> TRUE, data |-> "bytes"] }

\* msg.toString(): a text stays what it is, bytes are decoded as UTF-8 (what
\* is no UTF-8 comes out as replacement characters); send() of the string
\* makes a text frame
toString(m) ==
  [binary |-> FALSE,
   data |-> IF m.binary THEN "bytes decoded as UTF-8" ELSE m.data]

\* received: what arrived on either leg, in order; toStream: what was sent
\* on a worker leg, with the worker; toClient: what was sent on the client leg
NoRelay == [received |-> <<>>, toStream |-> <<>>, toClient |-> <<>>]

\* what a client has been told once created, and once dropped by worker w
NoticesOfNew ==
  sendNotice(<<>>, "OPEN", NoServer, Text("Waiting for available streamer"))

NoticesOfDropped(w) ==
  sendNotice(sendNotice(NoticesOfNew, "OPEN", w, Backend(w)),
             "OPEN", NoServer, Text("Streamer dropped"))

\* --------------------------------------------------------------- Init
WorkerRecord0 ==
  [numConnectedClients |-> 0, allocated |-> FALSE,
   lastPingReceived |-> 0, ready |-> FALSE]

\* the session side of the state for sessions numbered in S, none created
NoSessions(S) ==
  /\ ws = [p \in S |-> "NONE"]
  /\ stream = [p \in S |-> NoServer]
  /\ streamState = [p \in S |-> "NONE"]
  /\ onDisconnect = [p \in S |-> {}]
  /\ legUrl = [p \in S |-> NoUrl]
  /\ notices = [p \in S |-> <<>>]
  /\ heartbeat = [p \in S |-> NoHeartbeat]
  /\ pingTimeout = [p \in S |-> NoTimer]
  /\ relay = [p \in S |-> NoRelay]

\* no session yet, an empty queue, a pool of just registered workers
Fresh ==
  /\ pool = [w \in Workers |-> WorkerRecord0]
  /\ now = 0
  /\ queue = <<>>
  /\ nextId = 0
  /\ NoSessions(Players)

\* the gateway right after a successful new PlayerConnectionGateway(options)
Init ==
  /\ options = ValidOptions
  /\ gateway = "created"
  /\ debug \in BOOLEAN
  /\ Fresh

\* ------------------------------------------------------------ handlers
\* onClientConnection without connectWaitingPlayers()
ClientConnect_NoDrain ==
  /\ nextId < MaxPlayers
  /\ LET p == nextId + 1
         wsOf == [ws EXCEPT ![p] = "OPEN"]
         n0 == NoticesOfNew
     IN /\ ws' = wsOf
        /\ nextId' = p
        /\ heartbeat' = [heartbeat EXCEPT ![p] = StartHeartbeat]
        /\ SetCore([Core EXCEPT !.queue = QueueAdd(queue, p), !.notices[p] = n0])
  /\ UNCHANGED <<fixed, pingTimeout, relay>>

\* wss 'connection': onClientConnection; new VirtualPlayer(ws) starts the
\* heartbeat and sends the waiting notice
ClientConnect ==
  /\ nextId < MaxPlayers
  /\ LET p == nextId + 1
         wsOf == [ws EXCEPT ![p] = "OPEN"]
         n0 == NoticesOfNew
         c0 == [Core EXCEPT !.queue = QueueAdd(queue, p), !.notices[p] = n0]
     IN /\ ws' = wsOf
        /\ nextId' = p
        /\ heartbeat' = [heartbeat EXCEPT ![p] = StartHeartbeat]
        /\ SetCore(connectWaitingPlayers(c0, wsOf, now, debug))
  /\ UNCHANGED <<fixed, pingTimeout, relay>>

\* matchmaker socket 'data': onStreamerConnection's data listener
WorkerSignal ==
  /\ SetCore(connectWaitingPlayers(Core, ws, now, debug))
  /\ UNCHANGED <<fixed, nextId, ws, sideVars>>

\* the client leg leaves OPEN: close frame from the peer
ClientClosing(p) ==
  /\ ws[p] = "OPEN"
  /\ ws' = [ws EXCEPT ![p] = "CLOSING"]
  /\ UNCHANGED <<fixed, pool, queue, nextId, stream, streamState, onDisconnect,
                 legUrl, notices, sideVars>>

\* disconnect() without the freeServer listeners
ClientClose_KeepsAllocation(p) ==
  /\ ws[p] \in {"OPEN", "CLOSING"}
  /\ ws' = [ws EXCEPT ![p] = "CLOSED"]
  /\ heartbeat' = [heartbeat EXCEPT ![p] = clearInterval(@)]
  /\ queue' = QueueDelete(queue, p)
  /\ streamState' = [streamState EXCEPT ![p] =
        IF @ = "CONNECTING" THEN "ERRORED"
        ELSE IF @ = "OPEN" THEN "CLOSING" ELSE @]
  /\ UNCHANGED <<fixed, pool, nextId, stream, onDisconnect, legUrl, notices,
                 pingTimeout, relay>>

\* client ws 'close': clearInterval(hb); this.disconnect()
ClientClose(p) ==
  /\ ws[p] \in {"OPEN", "CLOSING"}
  /\ ws' = [ws EXCEPT ![p] = "CLOSED"]
  /\ heartbeat' = [heartbeat EXCEPT ![p] = clearInterval(@)]
  /\ queue' = QueueDelete(queue, p)
  \* stream.close() on a CONNECTING leg aborts the handshake, which emits
  \* 'error' (freeServer of that leg) before the close event
  /\ pool' = LET freed == FreeAll(pool, onDisconnect[p]) IN
             IF streamState[p] = "CONNECTING" THEN freeServer(freed, stream[p])
             ELSE freed
  /\ streamState' = [streamState EXCEPT ![p] =
        IF @ = "CONNECTING" THEN "ERRORED"
        ELSE IF @ = "OPEN" THEN "CLOSING" ELSE @]
  /\ UNCHANGED <<fixed, nextId, stream, onDisconnect, legUrl, notices,
                 pingTimeout, relay>>

\* worker leg 'open': pong() on the new socket, whose pingTimeout is undefined
StreamOpen(p) ==
  /\ streamState[p] = "CONNECTING"
  /\ streamState' = [streamState EXCEPT ![p] = "OPEN"]
  /\ pingTimeout' = [pingTimeout EXCEPT ![p] = pong(NoTimer)]
  /\ UNCHANGED <<fixed, pool, queue, nextId, ws, stream, onDisconnect, legUrl,
                 notices, heartbeat, relay>>

\* the error listener also putting the session back in the queue
StreamError_Requeues(p) ==
  /\ streamState[p] \in {"CONNECTING", "OPEN", "CLOSING"}
  /\ streamState' = [streamState EXCEPT ![p] = "ERRORED"]
  /\ pool' = freeServer(pool, stream[p])
  /\ queue' = IF isOpen(ws[p]) THEN QueueAdd(queue, p) ELSE queue
  /\ UNCHANGED <<fixed, nextId, ws, stream, onDisconnect, legUrl, notices, sideVars>>

\* worker leg 'error': the freeServer listener of assignPlayer
StreamError(p) ==
  /\ streamState[p] \in {"CONNECTING", "OPEN", "CLOSING"}
  /\ streamState' = [streamState EXCEPT ![p] = "ERRORED"]
  /\ pool' = freeServer(pool, stream[p])
  /\ UNCHANGED <<fixed, queue, nextId, ws, stream, onDisconnect, legUrl, notices,
                 sideVars>>

\* the drop listener without its isOpen(player.ws) test
StreamClose_AlwaysRequeues(p) ==
  /\ streamState[p] \in {"OPEN", "CLOSING", "ERRORED"}
  /\ stream' = [stream EXCEPT ![p] = NoServer]
  /\ streamState' = [streamState EXCEPT ![p] = "NONE"]
  /\ legUrl' = [legUrl EXCEPT ![p] = NoUrl]
  /\ pingTimeout' = [pingTimeout EXCEPT ![p] = clear(@)]
  /\ queue' = QueueAdd(queue, p)
  /\ notices' = [notices EXCEPT ![p] =
        sendNotice(@, ws[p], NoServer, Text("Streamer dropped"))]
  /\ UNCHANGED <<fixed, pool, nextId, ws, onDisconnect, heartbeat, relay>>

\* worker leg 'close': clear() on the socket, then handleStreamerClose:
\* this.stream = null, the 'drop' listeners, the notice
StreamClose(p) ==
  /\ streamState[p] \in {"OPEN", "CLOSING", "ERRORED"}
  /\ stream' = [stream EXCEPT ![p] = NoServer]
  /\ streamState' = [streamState EXCEPT ![p] = "NONE"]
  /\ legUrl' = [legUrl EXCEPT ![p] = NoUrl]
  /\ pingTimeout' = [pingTimeout EXCEPT ![p] = clear(@)]
  /\ queue' = IF isOpen(ws[p]) THEN QueueAdd(queue, p) ELSE queue
  /\ notices' = [notices EXCEPT ![p] =
        sendNotice(@, ws[p], NoServer, Text("Streamer dropped"))]
  /\ UNCHANGED <<fixed, pool, nextId, ws, onDisconnect, heartbeat, relay>>

\* ---------------------------------------------- the pool's owner, the clock
PoolSetReady(w) ==
  /\ pool' = [pool EXCEPT ![w].ready = ~@]
  /\ UNCHANGED <<fixed, queue, nextId, ws, stream, streamState, onDisconnect,
                 legUrl, notices, sideVars>>

PoolSetClients(w) ==
  /\ pool' = [pool EXCEPT ![w].numConnectedClients = 1 - @]
  /\ UNCHANGED <<fixed, queue, nextId, ws, stream, streamState, onDisconnect,
                 legUrl, notices, sideVars>>

Next ==
  \/ ClientConnect
  \/ WorkerSignal
  \/ \E p \in Players : ClientClosing(p)
  \/ \E p \in Players : ClientClose(p)
  \/ \E p \in Players : StreamOpen(p)
  \/ \E p \in Players : StreamError(p)
  \/ \E p \in Players : StreamClose(p)
  \/ \E w \in Workers : PoolSetReady(w)
  \/ \E w \in Workers : PoolSetClients(w)

Spec == Init /\ [][Next]_vars

\* ------------------------------------------------ the client heartbeat
\* the hb interval fires: _clientHeartbeat. probes counts the ws.ping() calls
HeartbeatTick(p) ==
  /\ heartbeat[p].hb
  /\ heartbeat[p].ticks < MaxTicks
  /\ LET h == heartbeat[p]
         h1 == [h EXCEPT !.ticks = @ + 1, !.punctual = @ /\ h.pongs = h.probes]
     IN IF ~h.alive
        THEN /\ ws' = [ws EXCEPT ![p] = terminate(@)]
             /\ heartbeat' = [heartbeat EXCEPT ![p] = [h1 EXCEPT !.terminated = TRUE]]
        ELSE /\ ws' = ws
             /\ heartbeat' = [heartbeat EXCEPT ![p] =
                   [h1 EXCEPT !.alive = FALSE, !.probes = @ + 1]]
  /\ UNCHANGED <<fixed, pool, queue, nextId, stream, streamState, onDisconnect,
                 legUrl, notices, pingTimeout, relay>>

\* client ws 'pong', the client's answer to a probe: ws.alive = true
Pong(p) ==
  /\ ws[p] = "OPEN"
  /\ heartbeat[p].pongs < heartbeat[p].probes
  /\ heartbeat' = [heartbeat EXCEPT ![p] = [@ EXCEPT !.alive = TRUE, !.pongs = @ + 1]]
  /\ UNCHANGED <<fixed, pool, queue, nextId, ws, stream, streamState, onDisconnect,
                 legUrl, notices, pingTimeout, relay>>

NextHeartbeat ==
  \/ ClientConnect
  \/ \E p \in Players : HeartbeatTick(p)
  \/ \E p \in Players : Pong(p)
  \/ \E p \in Players : ClientClosing(p)
  \/ \E p \in Players : ClientClose(p)

SpecHeartbeat == Init /\ [][NextHeartbeat]_vars

\* ------------------------------------------ the worker-leg deadline
\* the gateway with the readiness override on
InitDebug == Init /\ debug

\* worker leg 'ping': pong()
StreamPing(p) ==
  /\ streamState[p] \in {"OPEN", "CLOSING"}
  /\ pingTimeout[p].armed <= MaxPings
  /\ pingTimeout' = [pingTimeout EXCEPT ![p] = pong(@)]
  /\ UNCHANGED <<fixed, pool, queue, nextId, ws, stream, streamState, onDisconnect,
                 legUrl, notices, heartbeat, relay>>

\* one of the pending timers of the leg expires: this.terminate()
TimerFire(p) ==
  /\ \E id \in pingTimeout[p].pending :
       pingTimeout' = [pingTimeout EXCEPT ![p].pending = @ \ {id}]
  /\ streamState' = [streamState EXCEPT ![p] = terminate(@)]
  /\ UNCHANGED <<fixed, pool, queue, nextId, ws, stream, onDisconnect, legUrl,
                 notices, heartbeat, relay>>

NextTimer ==
  \/ ClientConnect
  \/ WorkerSignal
  \/ \E p \in Players : ClientClose(p)
  \/ \E p \in Players : StreamOpen(p)
  \/ \E p \in Players : StreamPing(p)
  \/ \E p \in Players : TimerFire(p)
  \/ \E p \in Players : StreamError(p)
  \/ \E p \in Players : StreamClose(p)

SpecTimer == InitDebug /\ [][NextTimer]_vars

\* ------------------------------------------------------------ the relay
\* payloads received so far, over all sessions
RECURSIVE ReceivedUpTo(_)
ReceivedUpTo(p) == IF p = 0 THEN 0 ELSE Len(relay[p].received) + ReceivedUpTo(p - 1)

\* client ws 'message': onClientMessage
ClientMessage(p, m) ==
  /\ ws[p] = "OPEN"
  /\ ReceivedUpTo(MaxPlayers) < MaxMsgs
  /\ LET msg == toString(m) IN
     relay' = [relay EXCEPT ![p] =
        [@ EXCEPT !.received = Append(@, [from |-> "client", payload |-> m]),
                  !.toStream = IF isOpen(streamState[p])
                               THEN Append(@, [payload |-> msg, to |-> stream[p]])
                               ELSE @]]
  /\ UNCHANGED <<fixed, pool, queue, nextId, ws, stream, streamState, onDisconnect,
                 legUrl, notices, heartbeat, pingTimeout>>

\* worker leg 'message': onStreamerMessage; a leg the gateway has closed
\* still delivers what the worker sent before it answers the close
StreamMessage(p, m) ==
  /\ streamState[p] \in {"OPEN", "CLOSING"}
  /\ ReceivedUpTo(MaxPlayers) < MaxMsgs
  /\ LET msg == toString(m) IN
     relay' = [relay EXCEPT ![p] =
        [@ EXCEPT !.received = Append(@, [from |-> "streamer", payload |-> m]),
                  !.toClient = IF isOpen(ws[p]) THEN Append(@, msg) ELSE @]]
  /\ UNCHANGED <<fixed, pool, queue, nextId, ws, stream, streamState, onDisconnect,
                 legUrl, notices, heartbeat, pingTimeout>>

NextRelay ==
  \/ ClientConnect
  \/ WorkerSignal
  \/ \E p \in Players : ClientClose(p)
  \/ \E p \in Players : StreamOpen(p)
  \/ \E p \in Players : StreamError(p)
  \/ \E p \in Players : StreamClose(p)
  \/ \E p \in Players, m \in Payloads : ClientMessage(p, m)
  \/ \E p \in Players, m \in Payloads : StreamMessage(p, m)

SpecRelay == InitDebug /\ [][NextRelay]_vars

\* ------------------------------------------ construction on its own
CtorInit ==
  /\ options \in OptionValues
  /\ gateway = "none"
  /\ debug \in BOOLEAN
  /\ Fresh

\* new PlayerConnectionGateway(options)
Construct ==
  /\ gateway = "none"
  /\ gateway' = IF ConstructorReturns(options) THEN "created" ELSE "threw"
  /\ UNCHANGED <<options, pool, now, debug, queue, nextId, ws, stream, streamState,
                 onDisconnect, legUrl, notices, sideVars>>

SpecCtor == CtorInit /\ [][Construct]_vars

\* --------------------------------- one drain over a standing queue
\* Sessions 1..n wait in arrival order, each client leg open or already
\* closing; session 1 may have been matched and dropped before (held); the
\* pool's owner has left the records in any condition.
WorkerRecords ==
  [numConnectedClients : {0, 1}, allocated : BOOLEAN,
   lastPingReceived : TimePoints, ready : BOOLEAN]

DrainInit ==
  /\ options = ValidOptions
  /\ gateway = "created"
  /\ debug \in BOOLEAN
  /\ now \in TimePoints
  /\ nextId \in 0..MaxQueue
  /\ queue = [i \in 1..nextId |-> i]
  /\ ws \in [1..MaxQueue -> {"NONE", "OPEN", "CLOSING"}]
  /\ \A p \in 1..MaxQueue : (ws[p] = "NONE") <=> (p > nextId)
  /\ stream = [p \in 1..MaxQueue |-> NoServer]
  /\ streamState = [p \in 1..MaxQueue |-> "NONE"]
  /\ legUrl = [p \in 1..MaxQueue |-> NoUrl]
  /\ heartbeat = [p \in 1..MaxQueue |-> IF p <= nextId THEN StartHeartbeat ELSE NoHeartbeat]
  /\ pingTimeout = [p \in 1..MaxQueue |-> NoTimer]
  /\ relay = [p \in 1..MaxQueue |-> NoRelay]
  /\ \E held \in SUBSET Workers :
       /\ nextId = 0 => held = {}
       /\ onDisconnect = [p \in 1..MaxQueue |-> IF p = 1 THEN held ELSE {}]
       /\ notices = [p \in 1..MaxQueue |->
            IF p > nextId THEN <<>>
            ELSE IF p = 1 /\ held # {} THEN NoticesOfDropped(CHOOSE w \in held : TRUE)
            ELSE NoticesOfNew]
  /\ pool \in [Workers -> WorkerRecords]
  /\ \A w \in Workers :
       /\ pool[w].lastPingReceived <= now
       /\ pool[w].allocated => w \in onDisconnect[1]

SpecDrain == DrainInit /\ [][WorkerSignal]_vars

TypeOK ==
  /\ now \in TimePoints
  /\ nextId \in 0..MaxQueue
  /\ gateway \in {"none", "created", "threw"}
  /\ \A p \in DOMAIN stream : stream[p] \in 0..NumWorkers

\* ------------------------------------------------------------- claims
InQueue(p) == p \in SeqToSet(queue)
Created == {p \in DOMAIN ws : ws[p] # "NONE"}
Disconnected(p) == ws[p] = "CLOSED"

\* C1, as stated: a session is in the waiting queue if and only if it has
\* no worker-leg handle and has not reached Disconnected.
C1_QueueIffNoLegNotDisconnected ==
  \A p \in Created :
    InQueue(p) <=> (stream[p] = NoServer /\ ~Disconnected(p))

\* C1, amended: a queued session has no worker-leg handle and has not
\* reached Disconnected, and a session with no worker-leg handle whose
\* client leg is open is queued.  (A session whose client leg is closing
\* can be outside the queue with no worker leg before it is Disconnected.)
C1_QueueIffWaitingOpen ==
  \A p \in Created :
    /\ InQueue(p) => (stream[p] = NoServer /\ ~Disconnected(p))
    /\ (stream[p] = NoServer /\ isOpen(ws[p])) => InQueue(p)

\* a session back in the queue after a drop, next to a matched session
C1_Witness ==
  \E p, q \in Created :
    /\ InQueue(p) /\ onDisconnect[p] # {}
    /\ q # p /\ stream[q] # NoServer /\ isOpen(ws[q])

\* C2, in its weakest reading (only open worker legs of sessions that are
\* not Disconnected count as held): no two sessions hold an open worker leg
\* to the same worker, and no step clears the allocated flag of a worker
\* while a session keeps an open worker leg to it.
C2_OneHolderPerWorker ==
  [][/\ \A p, q \in Created :
          (/\ p # q
           /\ stream'[p] # NoServer /\ streamState'[p] = "OPEN" /\ ws'[p] # "CLOSED"
           /\ streamState'[q] = "OPEN" /\ ws'[q] # "CLOSED")
          => stream'[p] # stream'[q]
     /\ \A p \in Created :
          (/\ stream[p] # NoServer /\ streamState[p] = "OPEN"
           /\ streamState'[p] = "OPEN" /\ ws'[p] # "CLOSED"
           /\ pool[stream[p]].allocated)
          => pool'[stream[p]].allocated]_vars

\* the sessions a step gives a worker leg to
NewlyAssigned == {p \in DOMAIN stream : stream[p] = NoServer /\ stream'[p] # NoServer}

\* C3, as stated: a worker is selected only if it has no connected client,
\* is not allocated, its last heartbeat is strictly less than the liveness
\* window old, and it is ready or the debug override is on; no worker is
\* selected twice by one drain.
C3_SelectedOnlyIfEligibleStrict ==
  [][/\ \A p \in NewlyAssigned :
          LET server == pool[stream'[p]] IN
          /\ server.numConnectedClients = 0
          /\ server.allocated = FALSE
          /\ now - server.lastPingReceived < LiveWindow
          /\ (server.ready = TRUE \/ debug)
     /\ \A p, q \in NewlyAssigned : p # q => stream'[p] # stream'[q]]_vars

\* C3, amended: as stated, with the last heartbeat at most one liveness
\* window old (a heartbeat exactly one window old still qualifies).
C3_SelectedOnlyIfEligible ==
  [][/\ \A p \in NewlyAssigned :
          LET server == pool[stream'[p]] IN
          /\ server.numConnectedClients = 0
          /\ server.allocated = FALSE
          /\ now - server.lastPingReceived <= LiveWindow
          /\ (server.ready = TRUE \/ debug)
     /\ \A p, q \in NewlyAssigned : p # q => stream'[p] # stream'[q]]_vars

\* a drain has matched a session to a worker whose heartbeat is exactly one
\* window old, while an allocated worker ahead of it in the pool was passed
C3_Witness ==
  \E p \in Created :
    /\ stream[p] = NumWorkers
    /\ now - pool[NumWorkers].lastPingReceived = LiveWindow
    /\ pool[1].allocated /\ \A q \in Created : stream[q] # 1

Min(a, b) == IF a < b THEN a ELSE b
EligibleWorkers == {w \in Workers : Eligible(pool[w], now, debug)}
AllQueuedOpen == \A i \in 1..Len(queue) : isOpen(ws[queue[i]])

\* C4: a drain over a queue S1..Sn whose client legs are all open, with k
\* eligible workers, gives a worker leg to exactly the first min(n,k)
\* sessions and leaves the others queued in their original order; and no
\* drain matches a session while leaving an earlier-queued open session
\* waiting.  (Every step of SpecDrain is one drain.)
C4_FifoDrain ==
  [][LET n == Len(queue)
         m == Min(n, Cardinality(EligibleWorkers))
     IN /\ AllQueuedOpen =>
             /\ \A i \in 1..m : stream'[queue[i]] # NoServer
             /\ \A i \in (m + 1)..n : stream'[queue[i]] = NoServer
             /\ queue' = SubSeq(queue, m + 1, n)
        /\ \A i, j \in 1..n :
             (i < j /\ isOpen(ws[queue[i]]) /\ stream'[queue[j]] # NoServer)
             => stream'[queue[i]] # NoServer]_vars

\* three open sessions were queued, one worker was eligible: the first is
\* matched, the second and third still wait in that order
C4_Witness ==
  /\ \A p \in 1..3 : p \in Created /\ isOpen(ws[p])
  /\ stream[1] # NoServer
  /\ queue = <<2, 3>>

\* C5: when the worker leg of a matched session closes while its client leg
\* is open, the worker's allocated flag is false when the handler ends,
\* whether or not an error event came first.
C5_DropFreesWorker ==
  [][\A p \in Created :
       (stream[p] # NoServer /\ stream'[p] = NoServer /\ isOpen(ws[p]))
       => ~pool'[stream[p]].allocated]_vars

\* C6: when the worker leg of a session closes its handle is cleared; the
\* session is in the queue at the end of the handler if its client leg is
\* open and is not if the client leg is closing or closed; and a session
\* whose client leg is not open never enters the queue.
C6_DropThenRequeue ==
  [][\A p \in Created :
       /\ (streamState[p] # "NONE" /\ streamState'[p] = "NONE") =>
            /\ stream'[p] = NoServer
            /\ isOpen(ws[p]) <=> p \in SeqToSet(queue')
       /\ (~isOpen(ws[p]) /\ ~InQueue(p)) => p \notin SeqToSet(queue')]_vars

\* one dropped session is back in the queue with its client leg open, and
\* another, dropped while its client leg was closing, is not
C6_Witness ==
  \E p, q \in Created :
    /\ onDisconnect[p] # {} /\ stream[p] = NoServer /\ isOpen(ws[p]) /\ InQueue(p)
    /\ onDisconnect[q] # {} /\ stream[q] = NoServer /\ ws[q] = "CLOSING" /\ ~InQueue(q)

\* C7: when the client leg of a matched session closes, the worker it holds
\* is no longer allocated, its worker leg has been told to close, and the
\* session is not in the queue; a Disconnected session is never queued.
C7_DisconnectReleases ==
  [][\A p \in Created :
       /\ (ws[p] # "CLOSED" /\ ws'[p] = "CLOSED" /\ stream[p] # NoServer) =>
            /\ ~pool'[stream[p]].allocated
            /\ stream'[p] = stream[p]
            /\ streamState'[p] \in {"CLOSING", "ERRORED"}
            /\ p \notin SeqToSet(queue')
       /\ ws'[p] = "CLOSED" => p \notin SeqToSet(queue')]_vars

\* a matched session is Disconnected and the close event of its worker leg
\* is still to come; another was Disconnected and its leg has closed since
C7_Witness ==
  \E p, q \in Created :
    /\ Disconnected(p) /\ stream[p] # NoServer /\ ~pool[stream[p]].allocated
    /\ Disconnected(q) /\ stream[q] = NoServer /\ onDisconnect[q] # {} /\ ~InQueue(q)

\* an open session waits although a worker is eligible
Unmatched ==
  /\ \E i \in 1..Len(queue) : isOpen(ws[queue[i]])
  /\ nextAvailable(pool, now, debug) # NoServer

\* C8, as stated: no handler that changes the queue, frees an allocation or
\* Disconnects a session ends with both an open waiting session and an
\* eligible worker.
C8_EveryHandlerDrains ==
  [][(\/ queue' # queue
      \/ \E w \in Workers : pool[w].allocated /\ ~pool'[w].allocated
      \/ \E p \in Created : ws[p] # "CLOSED" /\ ws'[p] = "CLOSED")
     => ~Unmatched']_vars

\* C8, amended: the handlers that drain are the client connection and the
\* worker control signal; neither ends with both an open waiting session
\* and an eligible worker.  (Client disconnect, worker-leg error and the
\* requeue of a dropped session do not drain.)
C8_ConnectAndSignalDrain ==
  [][(\/ nextId' # nextId
      \/ (ws' = ws /\ (NewlyAssigned # {} \/ Len(queue') < Len(queue))))
     => ~Unmatched']_vars

\* a connection handler has matched one session and left a second, open one
\* waiting because no worker was eligible any more
C8_Witness ==
  \E p, q \in Created :
    /\ streamState[p] = "CONNECTING" /\ isOpen(ws[p])
    /\ InQueue(q) /\ isOpen(ws[q]) /\ onDisconnect[q] = {}
    /\ ~Unmatched

\* C9: a gateway exists only if all four collaborators were given and were
\* of the required kind.
C9_ConstructionRejected ==
  gateway = "created" =>
    /\ options.server = Obj("Http.Server")
    /\ options.matchmaker = Obj("Net.Server")
    /\ options.pool = Obj("Map")
    /\ options.metrics = Obj("MetricsAdapter")

\* C10: a worker-leg error event outside a disconnect leaves the worker's
\* allocated flag false and the queue as it was.
C10_ErrorFreesNoRequeue ==
  [][\A p \in Created :
       (streamState[p] # "ERRORED" /\ streamState'[p] = "ERRORED" /\ ws'[p] = ws[p])
       => /\ ~pool'[stream[p]].allocated
          /\ queue' = queue
          /\ stream'[p] = stream[p]]_vars

\* after an error on its worker leg an open session is not queued, its
\* worker is free, and another session waits in the queue
C10_Witness ==
  \E p, q \in Created :
    /\ streamState[p] = "ERRORED" /\ isOpen(ws[p]) /\ ~InQueue(p)
    /\ ~pool[stream[p]].allocated
    /\ InQueue(q)
\* ---- C11
\* the hb interval of p fires in this step
Ticked(p) == heartbeat'[p].ticks = heartbeat[p].ticks + 1

\* a probe sent to p is still without its answer
ProbeUnanswered(p) == heartbeat[p].probes > heartbeat[p].pongs

\* C11: at each heartbeat tick, if the probe of the previous tick is still
\* unanswered the client leg is terminated (it is no longer open and no new
\* probe goes out), otherwise exactly one new probe is sent and the answered
\* flag is reset; a client that never answered is terminated by its second
\* tick and not before; a client that had answered every probe at every
\* tick is never terminated by the heartbeat; once the client leg has
\* closed the heartbeat of the session does nothing more.
C11_ClientHeartbeat ==
  [][\A p \in Players :
       /\ Ticked(p) =>
            IF ProbeUnanswered(p)
            THEN /\ heartbeat'[p].terminated
                 /\ ~isOpen(ws'[p])
                 /\ heartbeat'[p].probes = heartbeat[p].probes
            ELSE /\ heartbeat'[p].probes = heartbeat[p].probes + 1
                 /\ ~heartbeat'[p].alive
                 /\ ws'[p] = ws[p]
                 /\ heartbeat'[p].terminated = heartbeat[p].terminated
       /\ (heartbeat'[p].pongs = 0 /\ heartbeat'[p].hb) =>
            (heartbeat'[p].terminated <=> heartbeat'[p].ticks >= 2)
       /\ heartbeat'[p].punctual => ~heartbeat'[p].terminated
       /\ ws[p] = "CLOSED" => heartbeat'[p] = heartbeat[p]
       /\ ws'[p] = "CLOSED" => ~heartbeat'[p].hb]_vars

\* one client terminated by its heartbeat and closed, the other still open
\* after MaxTicks ticks, every probe answered in time
C11_Witness ==
  /\ heartbeat[1].terminated /\ heartbeat[1].pongs = 0 /\ ws[1] = "CLOSED"
  /\ heartbeat[2].ticks = MaxTicks /\ heartbeat[2].punctual /\ ws[2] = "OPEN"
  /\ heartbeat[2].pongs = MaxTicks - 1

\* ---- C12
\* C12: when the worker leg opens exactly one deadline timer is pending; a
\* probe from the worker replaces the pending timer by a new one; a timer
\* that expires is the one armed last (no probe came after it) and leaves
\* the leg terminated; at most one timer is pending per worker leg; a
\* session without worker leg has no timer pending.
C12_WorkerLegDeadline ==
  [][\A p \in Players :
       LET t == pingTimeout[p]
           u == pingTimeout'[p]
       IN /\ (streamState[p] = "CONNECTING" /\ streamState'[p] = "OPEN") =>
               (u.pending = {u.handle} /\ u.handle # 0)
          /\ (streamState[p] # "CONNECTING" /\ u.armed = t.armed + 1) =>
               (u.pending = {u.handle} /\ u.handle \notin t.pending)
          /\ (stream'[p] = stream[p] /\ u.armed = t.armed /\ u.pending # t.pending) =>
               /\ t.pending \ u.pending = {t.handle}
               /\ streamState'[p] \notin {"CONNECTING", "OPEN"}
          /\ Cardinality(u.pending) <= 1
          /\ stream'[p] = NoServer => u.pending = {}
          /\ streamState'[p] \in {"NONE", "CONNECTING"} => u.pending = {}]_vars

\* session 1's leg, renewed by a probe, was terminated by its deadline while
\* the client is still there; session 2's leg has a timer pending
C12_Witness ==
  /\ ws[1] = "OPEN" /\ streamState[1] = "CLOSING"
  /\ pingTimeout[1].armed >= 2 /\ pingTimeout[1].pending = {}
  /\ streamState[2] = "OPEN" /\ pingTimeout[2].pending # {}

\* ---- C13
LastNotice(p) == notices[p][Len(notices[p])]

\* C13: every notice a client got has queued equal to not matched; a client
\* whose leg is open has got a notice, and the last one says matched exactly
\* when the session has a worker leg; a handler that takes such a session
\* from waiting to matched or back delivers a new notice before it ends.
C13_NoticeReflectsState ==
  [][\A p \in Players :
       /\ \A i \in 1..Len(notices'[p]) :
            notices'[p][i].queued = ~notices'[p][i].matched
       /\ isOpen(ws'[p]) =>
            /\ notices'[p] # <<>>
            /\ LastNotice(p)'.matched = (stream'[p] # NoServer)
            /\ (stream[p] = NoServer) # (stream'[p] = NoServer) =>
                 /\ notices'[p] # notices[p]
                 /\ LastNotice(p)'.detail =
                      IF stream'[p] # NoServer THEN Backend(stream'[p])
                      ELSE Text("Streamer dropped")]_vars

\* session 1 was told of its match, then of the drop, and waits again;
\* session 2 was told it waits, then of its match
C13_Witness ==
  /\ isOpen(ws[1]) /\ InQueue(1) /\ Len(notices[1]) = NoticeWindow
  /\ LastNotice(1) = Notice(NoServer, Text("Streamer dropped"))
  /\ notices[1][Len(notices[1]) - 1].matched
  /\ isOpen(ws[2]) /\ stream[2] # NoServer
  /\ notices[2] = <<Notice(NoServer, Text("Waiting for available streamer")),
                    Notice(stream[2], Backend(stream[2]))>>

\* ---- C14
\* the notices a client has got
Waiting == Notice(NoServer, Text("Waiting for available streamer"))
Matched(w) == [queued |-> FALSE, matched |-> TRUE, detail |-> Backend(w)]

\* C14: when a client connects while the queue is empty, then at the end of
\* the connection handler: if a worker was eligible, one eligible worker has
\* its allocated flag set, the queue is empty again, the session's worker
\* leg is connecting to that worker with the session's identity as player
\* parameter, and the client has got the waiting notice followed by the
\* matched notice; if no worker was eligible, the queue holds just the new
\* session, which has no worker leg and has got the waiting notice only.
C14_ConnectEnqueuesAndDrains ==
  [][(nextId' = nextId + 1 /\ queue = <<>>) =>
       LET p == nextId' IN
       IF EligibleWorkers # {}
       THEN \E w \in EligibleWorkers :
              /\ pool'[w].allocated
              /\ queue' = <<>>
              /\ stream'[p] = w /\ streamState'[p] = "CONNECTING"
              /\ legUrl'[p] = [address |-> w, player |-> p]
              /\ notices'[p] = <<Waiting, Matched(w)>>
              /\ \A x \in Workers \ {w} : pool'[x] = pool[x]
       ELSE /\ queue' = <<p>>
            /\ stream'[p] = NoServer
            /\ notices'[p] = <<Waiting>>
            /\ pool' = pool]_vars

\* the first client connected when no worker was eligible, waited and left;
\* the second connected to the empty queue and got the one eligible worker
C14_Witness ==
  /\ nextId = 2 /\ ~debug
  /\ ws[1] = "CLOSED" /\ notices[1] = <<Waiting>> /\ queue = <<>>
  /\ stream[2] = 2 /\ notices[2] = <<Waiting, Matched(2)>>
  /\ legUrl[2] = [address |-> 2, player |-> 2]

\* ---- C15
\* queued sessions whose client leg is open before and after the step
StayOpen == {p \in Players : InQueue(p) /\ isOpen(ws[p]) /\ isOpen(ws'[p])}
Among(q, S) == SelectSeq(q, LAMBDA x : x \in S)

\* C15: a session that leaves the waiting queue in a step has a worker leg
\* after it or its client leg is no longer open; and a step that starts with
\* no eligible worker, a drain in particular, leaves every queued session
\* whose client leg stays open in the queue, without worker leg and in the
\* same order.
C15_NoQueueTimeout ==
  [][/\ \A p \in Players :
          (InQueue(p) /\ ~InQueue(p)') =>
             (stream'[p] # NoServer \/ ~isOpen(ws'[p]))
     /\ EligibleWorkers = {} =>
          /\ Among(queue', StayOpen) = Among(queue, StayOpen)
          /\ \A p \in StayOpen : stream'[p] = NoServer]_vars

\* two clients wait with open legs while the only ready worker is busy
C15_Witness ==
  /\ queue = <<1, 2>> /\ AllQueuedOpen /\ EligibleWorkers = {}
  /\ pool[1].ready /\ pool[1].numConnectedClients = 1 /\ ~pool[1].allocated

\* ---- C16
\* C16, as stated: in every reachable state the queue-depth gauge reports
\* the number of sessions in the waiting queue and the available-worker
\* gauge reports the number of eligible workers (eligible includes not
\* allocated and live), so an allocated worker is not counted as available.
\* Taken with the readiness override off, where eligible implies ready.
C16_GaugesReport ==
  /\ player_queue_count = Len(queue)
  /\ ~debug => streamer_available_count = Cardinality(EligibleWorkers)

\* ---- C17
\* a worker that is neither busy, nor allocated, nor stale
Free(w) ==
  /\ pool[w].numConnectedClients = 0
  /\ ~pool[w].allocated
  /\ now - pool[w].lastPingReceived <= LiveWindow

\* the workers the specification lets a drain select
Selectable == {w \in Workers : Free(w) /\ (pool[w].ready \/ debug)}

\* C17: nextAvailable returns the lowest worker in pool order among those
\* that have no connected client, are not allocated, are not stale and are
\* ready or covered by the debug override, and returns nothing only when
\* there is none; so with the override on a not-ready worker is returned
\* when no earlier worker qualifies, and never an allocated, busy or stale
\* one; a drain gives the returned worker to the first queued session when
\* that session's client leg is open.
C17_FirstMatchInPoolOrder ==
  [][LET r == nextAvailable(pool, now, debug) IN
     /\ (r = NoServer) <=> (Selectable = {})
     /\ r # NoServer =>
          /\ r \in Selectable
          /\ \A w \in Selectable : r <= w
          /\ Free(r)
     /\ \A w \in Workers :
          (debug /\ ~pool[w].ready /\ Free(w)
             /\ \A x \in 1..(w - 1) : ~Free(x)) => r = w
     /\ (r # NoServer /\ queue # <<>> /\ isOpen(ws[Head(queue)])) =>
          stream'[Head(queue)] = r]_vars

\* with the override on, the first session was given worker 1, which is not
\* ready, and the second session the ready worker after it
C17_Witness ==
  /\ debug /\ nextId = 2
  /\ stream[1] = 1 /\ ~pool[1].ready
  /\ stream[2] = 2 /\ pool[2].ready

\* ---- C18
Last(q) == q[Len(q)]

\* the payload p's session receives in this step from the given side
Receives(p, side, m) ==
  /\ relay'[p].received = Append(relay[p].received, [from |-> side, payload |-> m])

\* C18, as stated: a payload received on the client leg is sent unchanged on
\* the session's current worker leg if that leg is open and is otherwise
\* sent nowhere, and likewise from the worker leg to the client leg; nothing
\* is sent on a leg except the payload being received in the same step; a
\* step that receives a payload changes neither the queue nor the pool.
C18_RelayPassThrough ==
  [][\A p \in Players :
       /\ \A m \in Payloads :
            /\ Receives(p, "client", m) =>
                 /\ relay'[p].toStream =
                      IF isOpen(streamState[p])
                      THEN Append(relay[p].toStream, [payload |-> m, to |-> stream[p]])
                      ELSE relay[p].toStream
                 /\ relay'[p].toClient = relay[p].toClient
            /\ Receives(p, "streamer", m) =>
                 /\ relay'[p].toClient =
                      IF isOpen(ws[p]) THEN Append(relay[p].toClient, m)
                      ELSE relay[p].toClient
                 /\ relay'[p].toStream = relay[p].toStream
       /\ relay'[p].received = relay[p].received =>
            (relay'[p].toStream = relay[p].toStream /\ relay'[p].toClient = relay[p].toClient)
       /\ relay'[p].received # relay[p].received =>
            (queue' = queue /\ pool' = pool /\ stream' = stream)]_vars

\* ---- C19
\* the step handles the close of p's client leg (disconnect) or an error on
\* p's worker leg
Releases(p) ==
  \/ ws[p] # "CLOSED" /\ ws'[p] = "CLOSED"
  \/ streamState[p] # "ERRORED" /\ streamState'[p] = "ERRORED"

\* C19, as stated and taken in its weakest form: a session's disconnect, or
\* an error on its worker leg, never clears the allocated flag of a worker
\* that the session does not hold and that another session holds.
C19_ReleaseScopedToHolder ==
  [][\A p \in Players : \A w \in Workers :
       (Releases(p) /\ pool[w].allocated /\ ~pool'[w].allocated /\ stream[p] # w) =>
          ~\E q \in Players \ {p} : stream[q] = w /\ isOpen(ws[q])]_vars

\* ---- C20
\* the place of a queued session in a queue
Pos(q, x) == CHOOSE i \in 1..Len(q) : q[i] = x

\* C20: a session put back in the queue by the drop of its worker leg is
\* appended behind every session waiting then; no step changes the order of
\* two sessions that stay queued; and no step gives a worker leg to a queued
\* session while a session queued before it, whose client leg is open, is
\* left without one.  So a re-queued session is matched no earlier than any
\* session that was waiting when it was re-queued and keeps its client leg
\* open.
C20_RequeueAtTail ==
  [][/\ \A p \in Players :
          (stream[p] # NoServer /\ stream'[p] = NoServer /\ InQueue(p)') =>
             queue' = Append(queue, p)
     /\ \A p, q \in Players :
          (InQueue(p) /\ InQueue(q) /\ InQueue(p)' /\ InQueue(q)'
             /\ Pos(queue, q) < Pos(queue, p)) => Pos(queue', q) < Pos(queue', p)
     /\ \A p, q \in Players :
          (InQueue(p) /\ InQueue(q) /\ Pos(queue, q) < Pos(queue, p)
             /\ isOpen(ws[q]) /\ stream'[p] # NoServer) => stream'[q] # NoServer]_vars

\* session 1, dropped by its worker, waits behind session 2, which was
\* already waiting when it was put back
C20_Witness ==
  /\ queue = <<2, 1>> /\ isOpen(ws[1]) /\ isOpen(ws[2])
  /\ LastNotice(1).detail = Text("Streamer dropped")
  /\ notices[2] = <<Waiting>>

====
